---- MODULE Spec2Model ----
(***************************************************************************)
(* ChatAI.py: a chat client for the M5 Cardputer.  The model follows the   *)
(* global conversation log through main()'s prompt loop and through        *)
(* call_gemini_api(): the Wi-Fi check, the assembly of the bounded payload,*)
(* the placeholder Model turn, the transport call and every branch that    *)
(* handles its result, including the outer "except Exception" handler.     *)
(***************************************************************************)
EXTENDS Integers, Sequences, FiniteSets, TLC

(***************************************************************************)
(* Bounds of the exploration.                                              *)
(***************************************************************************)
\* A prompt with text is accepted only while the log is shorter than this.
MaxTurns == 11
\* At most this many unusual turns (a User turn typed with the persona's
\* text, a Model turn with empty text) are kept in the log at a time.
MaxOdd == 1
\* A collaborator call after the transport call raises only in a call entered
\* with at most this many turns in the log.
MaxFaultTurns == 4
\* Longest burst of keys one kb.get_new_keys() poll returns.
MaxKeys == 1

(***************************************************************************)
(* Program constants.                                                      *)
(***************************************************************************)
MAX_CONVERSATION_HISTORY == 5
\* err_content[:50]
ErrPrefixLen == 50

PersonaText == "You are a helpful and friendly assistant ..."
SYSTEM_PROMPT == [role |-> "user", text |-> PersonaText]

\* bot_response_entry as created: {"role": "model", "parts": [{"text": ""}]}
bot_response_entry == [role |-> "model", text |-> ""]

\* Non-empty texts ov.text_entry can return on ENT.
UserTexts == {"Hello", PersonaText}
\* Reply texts the service puts in candidates[0].content.parts[0].text.
ReplyTexts == {"Hi there!"}

Max(a, b) == IF a >= b THEN a ELSE b
Min(a, b) == IF a <= b THEN a ELSE b
Last(s) == s[Len(s)]
\* A pop() that is forgotten.
PopForgotten(s) == s
\* list.pop() on a non-empty list
Pop(s) == SubSeq(s, 1, Len(s) - 1)

VARIABLES
    conversation,        \* the global list `conversation`
    pc,                  \* where main() / call_gemini_api() stands
    should_prompt_next,  \* main()'s flag
    cfg,                 \* what lib.hydra.config holds: key and Wi-Fi credentials present?
    payload_contents,    \* call_gemini_api's local: what goes into "contents"
    r,                   \* the response requests.post returned (NoResp: none)
    exc,                 \* the exception the outer handler has caught (NoExc: none)
    shown,               \* every message given to ov.error during the current call
    entryLog,            \* the log when call_gemini_api was entered
    outcome,             \* the branch the current call took
    posts,               \* requests.post calls made by the current call
    popped,              \* the turns conversation.pop() removed in the current call
    overlay,             \* the message the overlay ov is displaying (NoOverlay: closed)
    current_prompt,      \* what ov.text_entry returned in this pass of the loop
    polled,              \* which of ESC, ENT the last kb.get_new_keys() held
    paint,               \* draw_ui's locals during a paint pass
    wrap,                \* wrap_text's arguments and locals
    nic                  \* connect_wifi's locals and the interface

\* The variables of main() and call_gemini_api().
mainvars == <<conversation, pc, should_prompt_next, cfg, payload_contents, r, exc,
              shown, entryLog, outcome, posts, popped, overlay, current_prompt,
              polled>>
\* The variables of the functions followed step by step on their own.
machines == <<paint, wrap, nic>>

vars == <<mainvars, machines>>

(***************************************************************************)
(* Messages given to ov.error.  A message is its fixed head, the status    *)
(* code it embeds (0: none), the text its variable part is taken from      *)
(* ("" : none) and the number of characters of that variable part.         *)
(***************************************************************************)
Msg(head, status, detail, extra) ==
    [head |-> head, status |-> status, detail |-> detail, extra |-> extra]
FixedMsg(head) == Msg(head, 0, "", 0)

\* The overlay: ov.error(m) displays m, ov.close() removes what is displayed.
NoOverlay == Msg("", 0, "", 0)
OvError(ov, m) == m
\* An ov.close() that is forgotten.
OvCloseForgotten(ov) == ov
OvClose(ov) == NoOverlay
\* ov.error(m); time.sleep_ms(2000); ov.close() for each message in turn.
RECURSIVE Notify(_, _)
Notify(ov, msgs) ==
    IF msgs = <<>> THEN ov
    ELSE Notify(OvClose(OvError(ov, Head(msgs))), Tail(msgs))

(***************************************************************************)
(* connect_wifi().  The link is given by k, the number of leading          *)
(* nic.isconnected() polls that answer False (afterwards it answers True). *)
(***************************************************************************)
max_retries == 20
\* Values of k: connected already, joins at once, joins late, joins too
\* late, never within the polling window.
LinkDelays == {0, 1, max_retries + 1, max_retries + 3, max_retries + 9}

\* while not nic.isconnected() and retries < max_retries: retries += 1
RECURSIVE WifiPoll(_, _, _)
WifiPoll(k, reads, retries) ==
    IF reads >= k \/ retries >= max_retries
    THEN [reads |-> reads + 1, retries |-> retries]
    ELSE WifiPoll(k, reads + 1, retries + 1)

\* The value connect_wifi returns, the messages it shows and the polls made.
connect_wifi(creds, k) ==
    IF ~creds
    THEN [result |-> FALSE, msgs |-> <<FixedMsg("No WiFi credentials!")>>,
          retries |-> 0, connects |-> 0]
    ELSE IF 0 >= k
    THEN [result |-> TRUE, msgs |-> <<>>, retries |-> 0, connects |-> 0]
    ELSE LET w == WifiPoll(k, 1, 0) IN
         IF w.reads >= k
         THEN [result |-> TRUE, msgs |-> <<>>, retries |-> w.retries, connects |-> 1]
         ELSE [result |-> FALSE, msgs |-> <<FixedMsg("WiFi connection failed!")>>,
               retries |-> w.retries, connects |-> 1]

(***************************************************************************)
(* Payload assembly, lines 165-172.                                        *)
(***************************************************************************)
\* [entry for entry in conversation if entry != SYSTEM_PROMPT]
NotSystemPrompt(entry) == entry # SYSTEM_PROMPT
actual_conversation_for_history(conv) == SelectSeq(conv, NotSystemPrompt)

\* Line 129: display_conversation, the turns draw_ui iterates over.
display_conversation(conv) == SelectSeq(conv, NotSystemPrompt)

start_index(actual) == Max(0, Len(actual) - MAX_CONVERSATION_HISTORY * 2)

\* payload_contents = [SYSTEM_PROMPT]; payload_contents.extend(actual[start_index:])
PayloadContents(conv) ==
    LET actual == actual_conversation_for_history(conv) IN
    <<SYSTEM_PROMPT>> \o SubSeq(actual, start_index(actual) + 1, Len(actual))

(***************************************************************************)
(* What requests.post can give back.  A body is described by the facts the *)
(* code asks of it at lines 213-221.                                       *)
(***************************************************************************)
GoodBody(t) ==
    [utf8 |-> TRUE, len |-> 60, json |-> TRUE, top |-> "object",
     hasCandidates |-> TRUE, candType |-> "list", nCandidates |-> 1,
     hasContent |-> TRUE, hasParts |-> TRUE, nParts |-> 1,
     hasText |-> TRUE, text |-> t]
Shape == GoodBody("")

Bodies ==
    {GoodBody(t) : t \in ReplyTexts}
    \cup {[Shape EXCEPT !.utf8 = FALSE],            \* bytes that are not UTF-8
          [Shape EXCEPT !.json = FALSE],            \* not JSON
          [Shape EXCEPT !.top = "number"],          \* the JSON document 5
          [Shape EXCEPT !.hasCandidates = FALSE],   \* {"error": ...}
          [Shape EXCEPT !.nCandidates = 0],         \* {"candidates": []}
          [Shape EXCEPT !.candType = "dict"],       \* {"candidates": {"a": 1}}
          [Shape EXCEPT !.hasContent = FALSE],
          [Shape EXCEPT !.hasParts = FALSE],
          [Shape EXCEPT !.nParts = 0],
          [Shape EXCEPT !.hasText = FALSE]}

\* Bodies of error responses: empty, short, longer than the prefix, undecodable.
ErrBodies ==
    {[Shape EXCEPT !.len = 0], [Shape EXCEPT !.len = 9], Shape,
     [Shape EXCEPT !.utf8 = FALSE]}

StatusCodes == {200, 503}

Responses ==
    {[status_code |-> 200, body |-> b] : b \in Bodies}
    \cup {[status_code |-> c, body |-> b] : c \in StatusCodes \ {200}, b \in ErrBodies}

NoResp == [status_code |-> 0, body |-> Shape]

\* Lines 213-221: the branch the body leads to.
ResponseBranch(body) ==
    IF ~body.utf8 THEN "UnicodeError"                 \* r.content.decode('utf-8')
    ELSE IF ~body.json THEN "JSONDecodeError"         \* json.loads
    ELSE IF body.top # "object" THEN "TypeError"      \* 'candidates' in data
    ELSE IF ~(body.hasCandidates /\ body.nCandidates > 0) THEN "else"
    ELSE IF body.candType # "list" THEN "KeyError"    \* data['candidates'][0]
    ELSE IF ~(body.hasContent /\ body.hasParts /\ body.nParts > 0 /\ body.hasText)
    THEN "else"
    ELSE "ok"

\* except (json.JSONDecodeError, KeyError, IndexError)
InnerCaught == {"JSONDecodeError", "KeyError", "IndexError"}

\* Exceptions: what was raised and the length of str(e).
NoExc == [desc |-> "", len |-> 0]
Exc(desc, len) == [desc |-> desc, len |-> len]
TransportErrors == {Exc("ECONNREFUSED", 17), Exc("getaddrinfo failed: name or service not known ...", 72)}
Raised(what) == Exc(what, 20)

\* The collaborator calls after the transport call that may raise: ov.error,
\* b.play, draw_ui, r.close.  NoFault: none of them does.
NoFault == "none"
FaultAllowed(fault) == fault = NoFault \/ Len(entryLog) <= MaxFaultTurns

\* Lines 197-200: err_msg
HttpErrMsg(resp) ==
    Msg("HTTP Error: ", resp.status_code,
        IF resp.body.utf8 /\ resp.body.len > 0 THEN "r.content" ELSE "",
        IF resp.body.utf8 /\ resp.body.len > 0
        THEN 3 + Min(resp.body.len, ErrPrefixLen) ELSE 0)

\* The message without the exception.
RequestFailMsgBare(e) == Msg("Request Fail: ", 0, "", 0)
\* Line 240: f"Request Fail: {e}"
RequestFailMsg(e) == Msg("Request Fail: ", 0, e.desc, e.len)

\* The reply stored as a new turn instead of in the placeholder.
FillEntryAppends(conv, t) == Append(conv, [role |-> "model", text |-> t])
\* bot_response_entry['parts'][0]['text'] = full_text_response: the entry is
\* the object appended at line 176, the last element of the log.
FillEntry(conv, t) == [conv EXCEPT ![Len(conv)].text = t]

\* Number of unusual turns of a log.
OddCount(conv) ==
    Cardinality({i \in DOMAIN conv : conv[i] = SYSTEM_PROMPT \/ conv[i] = bot_response_entry})

(***************************************************************************)
(* main(), lines 245-298.                                                  *)
(***************************************************************************)
Keys == {"ESC", "ENT", "a"}
KeySeqs == UNION {[1..n -> Keys] : n \in 0..MaxKeys}

\* The functions followed step by step are not running.
PaintIdle == [pc |-> "idle", H |-> 0, lines |-> <<>>, e |-> 0, l |-> 0, y |-> 0,
              drawn |-> <<>>]
WrapIdle == [pc |-> "idle", text |-> <<>>, width |-> 0, words |-> <<>>,
             lines |-> <<>>, current_line |-> <<>>]
NicIdle == [pc |-> "idle", ssid |-> FALSE, password |-> FALSE, link |-> FALSE,
            connected |-> FALSE,
            reads |-> 0, connects |-> 0, retries |-> 0, result |-> FALSE,
            msgs |-> <<>>]

\* Which of ESC and ENT a burst of keys holds.
Seen(keys) == [ESC |-> \E i \in DOMAIN keys : keys[i] = "ESC",
               ENT |-> \E i \in DOMAIN keys : keys[i] = "ENT"]

\* What ov.text_entry gives when ESC leaves it, and the value current_prompt
\* stands at in a pass of the loop that does not call it.
None == "<None>"
NotAsked == "<no text entry>"

\* Any key asks for the prompt and none ends the loop.
KeyLoopAnyKey(keys, spn) == [exit |-> FALSE, spn |-> spn \/ keys # <<>>]
\* for k in kb.get_new_keys(): ...   (lines 288-296)
RECURSIVE KeyLoop(_, _)
KeyLoop(keys, spn) ==
    IF keys = <<>> THEN [exit |-> FALSE, spn |-> spn]
    ELSE IF Head(keys) = "ESC" THEN [exit |-> TRUE, spn |-> spn]
    ELSE KeyLoop(Tail(keys), IF Head(keys) = "ENT" /\ ~spn THEN TRUE ELSE spn)

MainInit ==
    /\ conversation = <<>>
    /\ pc = "start"
    /\ should_prompt_next = FALSE
    /\ cfg \in [gemini_api_key : BOOLEAN, wifi : BOOLEAN]
    /\ payload_contents = <<>>
    /\ r = NoResp
    /\ exc = NoExc
    /\ shown = <<>>
    /\ entryLog = <<>>
    /\ outcome = ""
    /\ posts = 0
    /\ popped = <<>>
    /\ overlay = NoOverlay
    /\ current_prompt = NotAsked
    /\ polled = Seen(<<>>)

Init ==
    /\ MainInit
    /\ paint = PaintIdle
    /\ wrap = WrapIdle
    /\ nic = NicIdle

\* The locals and the per-call records as they are outside a call.
CallCleared ==
    /\ payload_contents' = <<>>
    /\ r' = NoResp
    /\ exc' = NoExc
    /\ entryLog' = <<>>
    /\ outcome' = ""
    /\ posts' = 0
    /\ popped' = <<>>

\* The missing key reported and the loop entered all the same.
MainNoKeyGoesOn ==
    /\ pc = "start"
    /\ ~cfg.gemini_api_key
    /\ shown' = <<FixedMsg("Set gemini_api_key in config!")>>
    /\ overlay' = Notify(overlay, shown')
    /\ should_prompt_next' = TRUE
    /\ pc' = "loop"
    /\ UNCHANGED <<conversation, cfg, payload_contents, r, exc,
                   entryLog, outcome, posts, popped, current_prompt, polled>>
    /\ UNCHANGED machines

\* Lines 251-257: no API key, show the error and return.
MainNoKey ==
    /\ pc = "start"
    /\ ~cfg.gemini_api_key
    /\ shown' = <<FixedMsg("Set gemini_api_key in config!")>>
    /\ overlay' = Notify(overlay, shown')
    /\ pc' = "exited"
    /\ UNCHANGED <<conversation, should_prompt_next, cfg, payload_contents, r, exc,
                   entryLog, outcome, posts, popped, current_prompt, polled>>
    /\ UNCHANGED machines

\* Lines 259-265: connect_wifi(), whatever it returns, draw_ui(), enter the loop.
MainStart ==
    /\ pc = "start"
    /\ cfg.gemini_api_key
    /\ \E k \in LinkDelays : shown' = connect_wifi(cfg.wifi, k).msgs
    /\ overlay' = Notify(overlay, shown')
    /\ should_prompt_next' = TRUE
    /\ pc' = "loop"
    /\ UNCHANGED <<conversation, cfg, payload_contents, r, exc, entryLog, outcome,
                   posts, popped, current_prompt, polled>>
    /\ UNCHANGED machines

\* Lines 268-274: text entry is cancelled.
MainCancel ==
    /\ pc = "loop"
    /\ should_prompt_next
    /\ current_prompt' = None
    /\ should_prompt_next' = FALSE
    /\ pc' = "keys"
    /\ shown' = <<>>
    /\ polled' = Seen(<<>>)
    /\ UNCHANGED <<conversation, cfg, payload_contents, r, exc, entryLog, outcome,
                   posts, popped, overlay>>
    /\ UNCHANGED machines

\* Lines 268-270, 283-285: ENT on an empty text.
MainEmpty ==
    /\ pc = "loop"
    /\ should_prompt_next
    /\ current_prompt' = ""
    /\ should_prompt_next' = TRUE
    /\ pc' = "keys"
    /\ shown' = <<>>
    /\ polled' = Seen(<<>>)
    /\ UNCHANGED <<conversation, cfg, payload_contents, r, exc, entryLog, outcome,
                   posts, popped, overlay>>
    /\ UNCHANGED machines

\* Lines 268-281: a text is entered: append the User turn, draw_ui(), and
\* enter call_gemini_api.
MainSubmit(text) ==
    /\ pc = "loop"
    /\ should_prompt_next
    /\ Len(conversation) < MaxTurns
    /\ text = PersonaText => OddCount(conversation) < MaxOdd
    /\ current_prompt' = text
    /\ should_prompt_next' = FALSE
    /\ conversation' = Append(conversation, [role |-> "user", text |-> current_prompt'])
    /\ entryLog' = conversation'
    /\ pc' = "api_entry"
    /\ shown' = <<>>
    /\ polled' = Seen(<<>>)
    /\ UNCHANGED <<cfg, payload_contents, r, exc, outcome, posts, popped, overlay>>
    /\ UNCHANGED machines

\* Line 282, after call_gemini_api has returned.
MainAfterCall ==
    /\ pc = "api_return"
    /\ should_prompt_next' = TRUE
    /\ pc' = "keys"
    /\ shown' = <<>>
    /\ CallCleared
    /\ UNCHANGED <<conversation, cfg, overlay, current_prompt, polled>>
    /\ UNCHANGED machines

\* Lines 288-298: the key poll and the sleep.
MainKeys(keys) ==
    /\ pc = "keys" \/ (pc = "loop" /\ ~should_prompt_next)
    /\ LET k == KeyLoop(keys, should_prompt_next) IN
       /\ should_prompt_next' = k.spn
       /\ pc' = IF k.exit THEN "exited" ELSE "loop"
    /\ polled' = Seen(keys)
    /\ current_prompt' = NotAsked
    /\ UNCHANGED <<conversation, cfg, payload_contents, r, exc, shown, entryLog,
                   outcome, posts, popped, overlay>>
    /\ UNCHANGED machines

(***************************************************************************)
(* call_gemini_api(), lines 148-243.                                       *)
(***************************************************************************)
\* The placeholder appended before the Wi-Fi check.
ApiNoNetworkAfterAppend(k) ==
    /\ pc = "api_entry"
    /\ ~connect_wifi(cfg.wifi, k).result
    /\ conversation' = Append(conversation, bot_response_entry)
    /\ shown' = shown \o connect_wifi(cfg.wifi, k).msgs \o <<FixedMsg("API: No network!")>>
    /\ overlay' = Notify(overlay, shown')
    /\ outcome' = "nonet"
    /\ pc' = "api_return"
    /\ UNCHANGED <<r, should_prompt_next, cfg, payload_contents, exc,
                   entryLog, posts, popped, current_prompt, polled>>
    /\ UNCHANGED machines

\* Lines 151-157: Wi-Fi is down and connect_wifi() fails: show the error, return.
ApiNoNetwork(k) ==
    /\ pc = "api_entry"
    /\ ~connect_wifi(cfg.wifi, k).result
    /\ shown' = shown \o connect_wifi(cfg.wifi, k).msgs \o <<FixedMsg("API: No network!")>>
    /\ overlay' = Notify(overlay, shown')
    /\ outcome' = "nonet"
    /\ pc' = "api_return"
    /\ UNCHANGED <<r, conversation, should_prompt_next, cfg, payload_contents, exc,
                   entryLog, posts, popped, current_prompt, polled>>
    /\ UNCHANGED machines

\* Lines 151-190: Wi-Fi is up (or connect_wifi() brings it up): assemble the
\* payload, append the placeholder entry to the log.
ApiBuildRequest(up, k) ==
    /\ pc = "api_entry"
    /\ up \/ connect_wifi(cfg.wifi, k).result
    /\ payload_contents' = PayloadContents(conversation)
    /\ conversation' = Append(conversation, bot_response_entry)
    /\ pc' = "api_post"
    /\ UNCHANGED <<r, should_prompt_next, cfg, exc, shown, entryLog, outcome, posts,
                   popped, overlay, current_prompt, polled>>
    /\ UNCHANGED machines

\* The transport call tried again after it raised.
ApiTransportErrorRetries(e) ==
    /\ pc = "api_post"
    /\ posts' = posts + 1
    /\ UNCHANGED <<pc, exc, outcome, r, conversation, should_prompt_next, cfg,
                   payload_contents, shown, entryLog, popped, overlay,
                   current_prompt, polled>>
    /\ UNCHANGED machines

\* Line 194: requests.post raises.
ApiTransportError(e) ==
    /\ pc = "api_post"
    /\ posts' = posts + 1
    /\ exc' = e
    /\ outcome' = "transport"
    /\ pc' = "api_except"
    /\ UNCHANGED <<r, conversation, should_prompt_next, cfg, payload_contents, shown,
                   entryLog, popped, overlay, current_prompt, polled>>
    /\ UNCHANGED machines

\* Lines 194-209: a status other than 200.
ApiHttpError(resp, fault) ==
    /\ pc = "api_post"
    /\ resp.status_code # 200
    /\ fault \in {NoFault, "ov.error", "r.close"}
    /\ FaultAllowed(fault)
    /\ posts' = posts + 1
    /\ r' = resp
    /\ outcome' = "http"
    /\ IF fault = "ov.error"
       THEN /\ exc' = Raised(fault)
            /\ pc' = "api_except"
            /\ UNCHANGED <<conversation, shown, popped, overlay>>
       ELSE /\ shown' = Append(shown, HttpErrMsg(resp))
            /\ overlay' = Notify(overlay, <<HttpErrMsg(resp)>>)
            /\ popped' = Append(popped, Last(conversation))
            /\ conversation' = Pop(conversation)
            /\ IF fault = "r.close"
               THEN exc' = Raised(fault) /\ pc' = "api_except"
               ELSE exc' = exc /\ pc' = "api_return"
    /\ UNCHANGED <<should_prompt_next, cfg, payload_contents, entryLog,
                   current_prompt, polled>>
    /\ UNCHANGED machines

\* Lines 194, 212-224, 236: status 200 and the reply text is where it is expected.
ApiSuccess(resp, fault) ==
    /\ pc = "api_post"
    /\ resp.status_code = 200
    /\ ResponseBranch(resp.body) = "ok"
    /\ fault \in {NoFault, "b.play", "draw_ui", "r.close"}
    /\ FaultAllowed(fault)
    /\ posts' = posts + 1
    /\ r' = resp
    /\ outcome' = "ok"
    /\ conversation' = FillEntry(conversation, resp.body.text)
    /\ IF fault = NoFault
       THEN exc' = exc /\ pc' = "api_return"
       ELSE exc' = Raised(fault) /\ pc' = "api_except"
    /\ UNCHANGED <<should_prompt_next, cfg, payload_contents, shown, entryLog, popped,
                   overlay, current_prompt, polled>>
    /\ UNCHANGED machines

\* Lines 194, 212-219, 225-229, 236: status 200, a field of the reply is missing.
ApiBadShape(resp, fault) ==
    /\ pc = "api_post"
    /\ resp.status_code = 200
    /\ ResponseBranch(resp.body) = "else"
    /\ fault \in {NoFault, "ov.error", "r.close"}
    /\ FaultAllowed(fault)
    /\ fault = NoFault => OddCount(entryLog) < MaxOdd
    /\ posts' = posts + 1
    /\ r' = resp
    /\ outcome' = "badshape"
    /\ shown' = IF fault = "ov.error" THEN shown
                ELSE Append(shown, FixedMsg("Bad API Response"))
    /\ overlay' = IF fault = "ov.error" THEN overlay
                  ELSE Notify(overlay, <<FixedMsg("Bad API Response")>>)
    /\ IF fault = NoFault
       THEN exc' = exc /\ pc' = "api_return"
       ELSE exc' = Raised(fault) /\ pc' = "api_except"
    /\ UNCHANGED <<conversation, should_prompt_next, cfg, payload_contents,
                   entryLog, popped, current_prompt, polled>>
    /\ UNCHANGED machines

\* Lines 194, 212-213, 230-236: status 200, parsing raises an exception the
\* inner handler catches.
ApiParseError(resp, fault) ==
    /\ pc = "api_post"
    /\ resp.status_code = 200
    /\ ResponseBranch(resp.body) \in InnerCaught
    /\ fault \in {NoFault, "ov.error", "r.close"}
    /\ FaultAllowed(fault)
    /\ fault = NoFault => OddCount(entryLog) < MaxOdd
    /\ posts' = posts + 1
    /\ r' = resp
    /\ outcome' = "parse"
    /\ shown' = IF fault = "ov.error" THEN shown
                ELSE Append(shown, FixedMsg("JSON Parse Error"))
    /\ overlay' = IF fault = "ov.error" THEN overlay
                  ELSE Notify(overlay, <<FixedMsg("JSON Parse Error")>>)
    /\ IF fault = NoFault
       THEN exc' = exc /\ pc' = "api_return"
       ELSE exc' = Raised(fault) /\ pc' = "api_except"
    /\ UNCHANGED <<conversation, should_prompt_next, cfg, payload_contents,
                   entryLog, popped, current_prompt, polled>>
    /\ UNCHANGED machines

\* Lines 194, 212-219, 230: status 200, parsing raises an exception the inner
\* handler does not catch.  On a runtime whose json module has no
\* JSONDecodeError (MicroPython) the except clause of line 230 itself raises
\* AttributeError, so there the exceptions of InnerCaught take this way too.
ApiParseUncaught(resp) ==
    /\ pc = "api_post"
    /\ resp.status_code = 200
    /\ ResponseBranch(resp.body) \notin {"ok", "else"}
    /\ posts' = posts + 1
    /\ r' = resp
    /\ outcome' = "uncaught"
    /\ exc' = Raised(IF ResponseBranch(resp.body) \in InnerCaught
                     THEN "AttributeError" ELSE ResponseBranch(resp.body))
    /\ pc' = "api_except"
    /\ UNCHANGED <<conversation, should_prompt_next, cfg, payload_contents, shown,
                   entryLog, popped, overlay, current_prompt, polled>>
    /\ UNCHANGED machines

\* Lines 238-243: the outer handler.
ApiExcept ==
    /\ pc = "api_except"
    /\ shown' = Append(shown, RequestFailMsg(exc))
    /\ overlay' = Notify(overlay, <<RequestFailMsg(exc)>>)
    /\ IF conversation # <<>>
       THEN /\ popped' = Append(popped, Last(conversation))
            /\ conversation' = Pop(conversation)
       ELSE UNCHANGED <<conversation, popped>>
    /\ pc' = "api_return"
    /\ UNCHANGED <<r, should_prompt_next, cfg, payload_contents, exc, entryLog,
                   outcome, posts, current_prompt, polled>>
    /\ UNCHANGED machines

\* Line 240: ov.error raises inside the outer handler: the exception leaves
\* call_gemini_api and main().
ApiExceptRaises ==
    /\ pc = "api_except"
    /\ FaultAllowed("ov.error")
    /\ pc' = "crashed"
    /\ CallCleared
    /\ UNCHANGED <<conversation, should_prompt_next, cfg, shown, overlay,
                   current_prompt, polled>>
    /\ UNCHANGED machines

\* The steps of the program when the collaborator calls after the transport
\* call raise only as Faults allows.
Step(Faults) ==
    \/ MainNoKey
    \/ MainStart
    \/ MainCancel
    \/ MainEmpty
    \/ \E t \in UserTexts : MainSubmit(t)
    \/ MainAfterCall
    \/ \E keys \in KeySeqs : MainKeys(keys)
    \/ \E k \in LinkDelays : ApiNoNetwork(k)
    \/ \E up \in BOOLEAN, k \in LinkDelays : ApiBuildRequest(up, k)
    \/ \E e \in TransportErrors : ApiTransportError(e)
    \/ \E resp \in Responses, f \in Faults : ApiHttpError(resp, f)
    \/ \E resp \in Responses, f \in Faults : ApiSuccess(resp, f)
    \/ \E resp \in Responses, f \in Faults : ApiBadShape(resp, f)
    \/ \E resp \in Responses, f \in Faults : ApiParseError(resp, f)
    \/ \E resp \in Responses : ApiParseUncaught(resp)
    \/ ApiExcept

\* The display, the beeper, the overlay and the response object work.
Next == Step({NoFault})

Spec == Init /\ [][Next]_vars

\* Any of ov.error, b.play, draw_ui and r.close may raise.
NextFaults ==
    \/ Step({NoFault, "ov.error", "b.play", "draw_ui", "r.close"})
    \/ ApiExceptRaises

SpecFaults == Init /\ [][NextFaults]_vars

(***************************************************************************)
(* draw_ui(), lines 119-146, one paint pass followed line by line.  The    *)
(* pass is given the display height and, for each turn it iterates over    *)
(* (oldest first), the number of lines wrap_text returns for it.           *)
(***************************************************************************)
\* y = H - 4
BottomMargin == 4
\* y -= 10
LineHeight == 10
\* if y < 14: break
TopLimit == 14

\* Heights of the display: the Cardputer's and two small ones.
DisplayHeights == {135, 38, 17}
\* Turns in the log painted, and lines of one wrapped turn.
MaxPaintTurns == 3
MaxPaintLines == 6
PaintInputs ==
    {[PaintIdle EXCEPT !.pc = "start", !.H = h, !.lines = ls] :
        h \in DisplayHeights,
        ls \in UNION {[1..n -> 0..MaxPaintLines] : n \in 0..MaxPaintTurns}}

\* main() is not running (its configuration is complete).
MainIdle == MainInit /\ cfg.gemini_api_key /\ cfg.wifi

InitDraw ==
    /\ MainIdle
    /\ paint \in PaintInputs
    /\ wrap = WrapIdle
    /\ nic = NicIdle

\* Lines 121-131: clear, header, y = H - 4, the newest turn comes first.
PaintBegin ==
    /\ paint.pc = "start"
    /\ paint' = [paint EXCEPT !.y = paint.H - BottomMargin,
                              !.e = Len(paint.lines), !.pc = "entry"]
    /\ UNCHANGED <<mainvars, wrap, nic>>

\* Lines 131-139: the next turn of reversed(display_conversation) and its
\* wrapped lines, or the end of the loop and d.show().
PaintEntry ==
    /\ paint.pc = "entry"
    /\ paint' = IF paint.e = 0
                THEN [paint EXCEPT !.pc = "done"]
                ELSE [paint EXCEPT !.l = paint.lines[paint.e], !.pc = "line"]
    /\ UNCHANGED <<mainvars, wrap, nic>>

\* The line drawn before the cursor is compared with the limit.
PaintLineDrawsFirst ==
    /\ paint.pc = "line"
    /\ paint' =
         IF paint.l = 0
         THEN [paint EXCEPT !.pc = "after"]
         ELSE [paint EXCEPT !.y = paint.y - LineHeight,
                            !.drawn = Append(paint.drawn,
                                [e |-> paint.e, l |-> paint.l, y |-> paint.y - LineHeight]),
                            !.l = paint.l - 1,
                            !.pc = IF paint.y - LineHeight < TopLimit
                                   THEN "after" ELSE "line"]
    /\ UNCHANGED <<mainvars, wrap, nic>>

\* Lines 140-143: for line in reversed(lines): move the cursor up, stop when
\* it is above the limit, else draw the line.
PaintLine ==
    /\ paint.pc = "line"
    /\ paint' =
         IF paint.l = 0
         THEN [paint EXCEPT !.pc = "after"]
         ELSE IF paint.y - LineHeight < TopLimit
         THEN [paint EXCEPT !.y = paint.y - LineHeight, !.pc = "after"]
         ELSE [paint EXCEPT !.y = paint.y - LineHeight,
                            !.drawn = Append(paint.drawn,
                                [e |-> paint.e, l |-> paint.l, y |-> paint.y - LineHeight]),
                            !.l = paint.l - 1]
    /\ UNCHANGED <<mainvars, wrap, nic>>

\* Lines 144-146: if y < 14: break, then d.show(); else the next older turn.
PaintAfterLines ==
    /\ paint.pc = "after"
    /\ paint' = IF paint.y < TopLimit
                THEN [paint EXCEPT !.pc = "done"]
                ELSE [paint EXCEPT !.e = paint.e - 1, !.pc = "entry"]
    /\ UNCHANGED <<mainvars, wrap, nic>>

NextDraw == PaintBegin \/ PaintEntry \/ PaintLine \/ PaintAfterLines

SpecDraw == InitDraw /\ [][NextDraw]_vars

(***************************************************************************)
(* wrap_text(text, width), lines 89-117, followed word by word.  A string  *)
(* is the sequence of its characters; d.get_total_width adds up the widths *)
(* of the characters, a narrow one and the space 1 unit, a wide one 2.     *)
(***************************************************************************)
Chars == {" ", "i", "W"}
CharWidth(c) == IF c = "W" THEN 2 ELSE 1

RECURSIVE get_total_width(_)
get_total_width(str) ==
    IF str = <<>> THEN 0 ELSE CharWidth(Head(str)) + get_total_width(Tail(str))

\* str.split(' '): the pieces between single spaces, empty ones included.
RECURSIVE SplitFrom(_, _, _)
SplitFrom(str, piece, pieces) ==
    IF str = <<>> THEN Append(pieces, piece)
    ELSE IF Head(str) = " " THEN SplitFrom(Tail(str), <<>>, Append(pieces, piece))
    ELSE SplitFrom(Tail(str), Append(piece, Head(str)), pieces)
Split(str) == SplitFrom(str, <<>>, <<>>)

\* str.strip()
RECURSIVE LStrip(_)
LStrip(str) ==
    IF str # <<>> /\ Head(str) = " " THEN LStrip(Tail(str)) ELSE str
RECURSIVE RStrip(_)
RStrip(str) ==
    IF str # <<>> /\ Last(str) = " " THEN RStrip(Pop(str)) ELSE str
Strip(str) == RStrip(LStrip(str))

\* ' ' if current_line else ''
Sep(current_line) == IF current_line # <<>> THEN <<" ">> ELSE <<>>

\* A long word left in one piece.
CharSplitWhole(word, width, temp_word_part, parts) == Append(parts, word)
\* Lines 100-107: for char in word: ...; the parts appended to lines.
RECURSIVE CharSplit(_, _, _, _)
CharSplit(word, width, temp_word_part, parts) ==
    IF word = <<>>
    THEN IF temp_word_part # <<>> THEN Append(parts, temp_word_part) ELSE parts
    ELSE IF get_total_width(Append(temp_word_part, Head(word))) <= width
    THEN CharSplit(Tail(word), width, Append(temp_word_part, Head(word)), parts)
    ELSE CharSplit(Tail(word), width, <<Head(word)>>,
                   IF temp_word_part # <<>> THEN Append(parts, temp_word_part)
                   ELSE parts)

\* Longest text wrapped and widest line asked for.
MaxTextLen == 5
MaxWidth == 3
WrapInputs ==
    {[WrapIdle EXCEPT !.pc = "start", !.text = t, !.width = w] :
        t \in UNION {[1..n -> Chars] : n \in 0..MaxTextLen}, w \in 1..MaxWidth}

InitWrap ==
    /\ MainIdle
    /\ paint = PaintIdle
    /\ wrap \in WrapInputs
    /\ nic = NicIdle

\* Lines 91-94: lines = [], current_line = "", the words of the text.
WrapBegin ==
    /\ wrap.pc = "start"
    /\ wrap' = [wrap EXCEPT !.words = Split(wrap.text), !.lines = <<>>,
                            !.current_line = <<>>, !.pc = "loop"]
    /\ UNCHANGED <<mainvars, paint, nic>>

\* Lines 95-109: a word wider than the line is split into parts, which are
\* appended to lines; current_line is emptied.
WrapLongWord ==
    /\ wrap.pc = "loop"
    /\ wrap.words # <<>>
    /\ get_total_width(Head(wrap.words)) > wrap.width
    /\ wrap' = [wrap EXCEPT
                   !.lines = CharSplit(Head(wrap.words), wrap.width, <<>>, wrap.lines),
                   !.current_line = <<>>,
                   !.words = Tail(wrap.words)]
    /\ UNCHANGED <<mainvars, paint, nic>>

\* Lines 95-97, 111-115: a word that fits a line joins current_line or starts
\* a new line.
WrapWord ==
    /\ wrap.pc = "loop"
    /\ wrap.words # <<>>
    /\ get_total_width(Head(wrap.words)) <= wrap.width
    /\ LET word == Head(wrap.words)
           joined == wrap.current_line \o Sep(wrap.current_line) \o word
       IN  wrap' =
             IF get_total_width(joined) <= wrap.width
             THEN [wrap EXCEPT !.current_line = joined, !.words = Tail(wrap.words)]
             ELSE [wrap EXCEPT
                     !.lines = IF wrap.current_line # <<>>
                               THEN Append(wrap.lines, Strip(wrap.current_line))
                               ELSE wrap.lines,
                     !.current_line = word,
                     !.words = Tail(wrap.words)]
    /\ UNCHANGED <<mainvars, paint, nic>>

\* Lines 116-117: the last line, return lines.
WrapReturn ==
    /\ wrap.pc = "loop"
    /\ wrap.words = <<>>
    /\ wrap' = [wrap EXCEPT
                   !.lines = IF wrap.current_line # <<>>
                             THEN Append(wrap.lines, Strip(wrap.current_line))
                             ELSE wrap.lines,
                   !.pc = "done"]
    /\ UNCHANGED <<mainvars, paint, nic>>

NextWrap == WrapBegin \/ WrapLongWord \/ WrapWord \/ WrapReturn

SpecWrap == InitWrap /\ [][NextWrap]_vars

(***************************************************************************)
(* connect_wifi(), lines 39-87, followed poll by poll.  nic.link is the     *)
(* state of the link, which comes and goes as it likes; nic.isconnected()  *)
(* answers what the link is at that moment.  nic.connected is the last     *)
(* answer, nic.reads the number of answers asked for.                      *)
(***************************************************************************)
NicInputs ==
    {[NicIdle EXCEPT !.pc = "start", !.ssid = s, !.password = p, !.link = l] :
        s \in BOOLEAN, p \in BOOLEAN, l \in BOOLEAN}

InitWifi ==
    /\ MainIdle
    /\ paint = PaintIdle
    /\ wrap = WrapIdle
    /\ nic \in NicInputs

\* The link is made or lost.
LinkChanges ==
    /\ nic.pc # "idle"
    /\ nic' = [nic EXCEPT !.link = ~nic.link]
    /\ UNCHANGED <<mainvars, paint, wrap>>

\* Lines 46-54: ssid or password missing.
NicNoCredentials ==
    /\ nic.pc = "start"
    /\ ~nic.ssid \/ ~nic.password
    /\ nic' = [nic EXCEPT !.msgs = <<FixedMsg("No WiFi credentials!")>>,
                          !.result = FALSE, !.pc = "done"]
    /\ UNCHANGED <<mainvars, paint, wrap>>

\* Lines 56-66: connected already, or nic.connect and retries = 0.
NicFirstCheck ==
    /\ nic.pc = "start"
    /\ nic.ssid /\ nic.password
    /\ nic' = IF nic.link
              THEN [nic EXCEPT !.connected = nic.link, !.reads = nic.reads + 1,
                               !.result = TRUE, !.pc = "done"]
              ELSE [nic EXCEPT !.connected = nic.link, !.reads = nic.reads + 1,
                               !.connects = nic.connects + 1, !.retries = 0,
                               !.pc = "poll"]
    /\ UNCHANGED <<mainvars, paint, wrap>>

\* The loop going round once more than max_retries allows.
NicPollOneMore ==
    /\ nic.pc = "poll"
    /\ nic' = IF ~nic.link /\ nic.retries <= max_retries
              THEN [nic EXCEPT !.connected = nic.link, !.reads = nic.reads + 1,
                               !.retries = nic.retries + 1]
              ELSE [nic EXCEPT !.connected = nic.link, !.reads = nic.reads + 1,
                               !.pc = "final"]
    /\ UNCHANGED <<mainvars, paint, wrap>>

\* Lines 68-73: while not nic.isconnected() and retries < max_retries:
\* sleep 500 ms, retries += 1.
NicPoll ==
    /\ nic.pc = "poll"
    /\ nic' = IF ~nic.link /\ nic.retries < max_retries
              THEN [nic EXCEPT !.connected = nic.link, !.reads = nic.reads + 1,
                               !.retries = nic.retries + 1]
              ELSE [nic EXCEPT !.connected = nic.link, !.reads = nic.reads + 1,
                               !.pc = "final"]
    /\ UNCHANGED <<mainvars, paint, wrap>>

\* Lines 79-87: the last nic.isconnected() decides what is returned.
NicFinal ==
    /\ nic.pc = "final"
    /\ nic' = [nic EXCEPT !.connected = nic.link, !.reads = nic.reads + 1,
                          !.result = nic.link,
                          !.msgs = IF nic.link THEN <<>>
                                   ELSE <<FixedMsg("WiFi connection failed!")>>,
                          !.pc = "done"]
    /\ UNCHANGED <<mainvars, paint, wrap>>

\* The steps of connect_wifi.
NicStep == NicNoCredentials \/ NicFirstCheck \/ NicPoll \/ NicFinal

NextWifi == NicStep \/ LinkChanges

\* connect_wifi is the only thing running and time.sleep_ms returns: its
\* next step is taken, however the link behaves.
SpecWifi == InitWifi /\ [][NextWifi]_vars /\ WF_vars(NicStep)

(***************************************************************************)
(* Properties.                                                             *)
(***************************************************************************)
ModelTurn(t) == [role |-> "model", text |-> t]
UserTurn(t) == [role |-> "user", text |-> t]

\* Positions of the Model turns with empty text.
EmptyModelTurns(conv) ==
    {i \in DOMAIN conv : conv[i].role = "model" /\ conv[i].text = ""}

\* The last n elements of a sequence.
LastN(s, n) == SubSeq(s, Len(s) - n + 1, Len(s))

\* call_gemini_api has returned to main().
Returned == pc = "api_return"
\* The request has been assembled and the placeholder appended.
Dispatched == pc = "api_post"
\* The response was a 200 with the reply text in place.
GotReply == r.status_code = 200 /\ ResponseBranch(r.body) = "ok"
\* The response was a 200 whose body does not have the expected shape.
GotMalformed == r.status_code = 200 /\ ResponseBranch(r.body) # "ok"

\* C1: in every reachable state the log holds at most one Model turn with
\* empty text, and if it holds one, that turn is the last element.
C1_AtMostOnePendingAndLast ==
    /\ Cardinality(EmptyModelTurns(conversation)) <= 1
    /\ \A i \in EmptyModelTurns(conversation) : i = Len(conversation)

\* C2: whenever call_gemini_api has returned, the log is the log on entry, or
\* the log on entry plus one Model turn holding the reply text, and it holds
\* no Model turn with empty text.
C2_ReturnLeavesNoEmptyTurn ==
    Returned =>
        /\ \/ conversation = entryLog
           \/ GotReply /\ conversation = Append(entryLog, ModelTurn(r.body.text))
        /\ EmptyModelTurns(conversation) = {}

\* C3: the contents of every dispatched request are the persona turn plus at
\* most 2 * MAX_CONVERSATION_HISTORY stored turns, none of which is an
\* empty-text Model turn.
C3_PayloadBoundedNoPending ==
    Dispatched =>
        /\ Head(payload_contents) = SYSTEM_PROMPT
        /\ Len(payload_contents) - 1 <= 2 * MAX_CONVERSATION_HISTORY
        /\ EmptyModelTurns(Tail(payload_contents)) = {}

\* The messages of the HTTP-error and of the transport-error path.
HttpOrTransportHeads == {"HTTP Error: ", "Request Fail: "}

\* C4: after a 200 response with a malformed body the placeholder is gone (the
\* log has as many turns as before it was appended) and the message shown is
\* neither the HTTP-error nor the transport-error message.
C4_MalformedBodyRollsBack ==
    (Returned /\ GotMalformed) =>
        /\ Len(conversation) = Len(entryLog)
        /\ shown # <<>>
        /\ Last(shown).head \notin HttpOrTransportHeads

\* C5: after a response with a status other than 200 has been handled, the
\* log is what it was before the placeholder was appended (the User turn is
\* its last element, no Model turn was added) and the message shown carries
\* the status code.
C5_HttpErrorRollsBack ==
    (Returned /\ r.status_code \notin {0, 200}) =>
        /\ Len(conversation) = Len(entryLog)
        /\ conversation = entryLog
        /\ Last(conversation).role = "user"
        /\ shown # <<>>
        /\ Last(shown).head = "HTTP Error: "
        /\ Last(shown).status = r.status_code

C5_Witness ==
    /\ Returned
    /\ r.status_code = 503
    /\ Len(conversation) >= 3
    /\ Last(shown).status = 503

\* C6: every turn conversation.pop() removes is the pending Model turn with
\* empty text, also when a step after the transport call raises.
C6_OnlyPendingTurnRemoved ==
    \A i \in DOMAIN popped : popped[i] = bot_response_entry

\* C7: at request assembly the contents are the persona turn followed by the
\* last min(n, 10) turns of the log of n turns, in order.
C7_WindowIsLastTurnsOfLog ==
    Dispatched =>
        payload_contents =
            <<SYSTEM_PROMPT>> \o
            LastN(entryLog, Min(Len(entryLog), 2 * MAX_CONVERSATION_HISTORY))

\* C8: after a 200 response carrying the reply text t, the log is the log on
\* entry followed by exactly one Model turn with text t.
C8_SuccessAppendsReply ==
    (Returned /\ GotReply) =>
        conversation = Append(entryLog, ModelTurn(r.body.text))

C8_Witness ==
    /\ Returned
    /\ GotReply
    /\ conversation = <<UserTurn("Hello"), ModelTurn("Hi there!")>>

\* C9: after requests.post has raised, the placeholder appended for the
\* request is removed, the log is the log on entry, and the message shown
\* carries the description of the exception.
C9_TransportErrorRollsBack ==
    (Returned /\ outcome = "transport") =>
        /\ conversation = entryLog
        /\ popped = <<bot_response_entry>>
        /\ exc \in TransportErrors
        /\ shown # <<>>
        /\ Last(shown).head = "Request Fail: "
        /\ Last(shown).detail = exc.desc

C9_Witness ==
    /\ Returned
    /\ outcome = "transport"
    /\ posts = 1
    /\ Len(entryLog) >= 2
    /\ Last(shown).detail = "ECONNREFUSED"

\* C10: when Wi-Fi is down and connect_wifi() fails, call_gemini_api shows
\* "API: No network!" and returns with the log unchanged: no placeholder was
\* appended, no payload assembled and no transport call made.
C10_NoNetworkLeavesLog ==
    (Returned /\ outcome = "nonet") =>
        /\ conversation = entryLog
        /\ popped = <<>>
        /\ payload_contents = <<>>
        /\ posts = 0
        /\ r = NoResp
        /\ shown # <<>>
        /\ Last(shown) = FixedMsg("API: No network!")

C10_Witness ==
    /\ Returned
    /\ outcome = "nonet"
    /\ conversation # <<>>
    /\ Last(shown) = FixedMsg("API: No network!")

\* The number of characters a message takes from the response body (with the
\* 3 of its " - " separator) or from the exception.
VariablePart(m) == m.extra

\* C11: every message given to ov.error during a call has a variable part of
\* at most the truncation prefix (50 characters, plus the 3 of " - "),
\* whatever the length of the error body or of the exception's description.
C11_ErrorMessagesBounded ==
    pc \in {"api_post", "api_except", "api_return"} =>
        \A i \in DOMAIN shown : VariablePart(shown[i]) <= 3 + ErrPrefixLen

\* The outcomes of a call that is a per-request failure.
Failures == {"nonet", "http", "badshape", "parse", "uncaught", "transport"}
InCall == pc \in {"api_entry", "api_post", "api_except"}

\* C12: a call that fails (no network, status other than 200, malformed
\* body, transport exception) stays inside call_gemini_api until it returns
\* to main(); at the return a message has been shown and the overlay is
\* closed again; main() then sets should_prompt_next and goes on to its key
\* poll.
C12_FailuresAbsorbed ==
    /\ []((Returned /\ outcome \in Failures) =>
             (shown # <<>> /\ overlay = NoOverlay))
    /\ [][InCall => (InCall' \/ Returned')]_vars
    /\ [][Returned => (pc' = "keys" /\ should_prompt_next')]_vars

C12_Witness ==
    /\ Returned
    /\ outcome = "nonet"
    /\ Len(shown) = 2
    /\ overlay = NoOverlay

\* A step in which ov.text_entry is called.
TextEntryOpens == current_prompt = NotAsked /\ current_prompt' # NotAsked

\* C13: a call makes at most one transport call, and the text entry is opened
\* only in main()'s loop with no call under way: nothing of a previous call
\* is left unresolved.
C13_OneRequestAtATime ==
    /\ [](posts <= 1)
    /\ [](InCall => current_prompt \in UserTexts)
    /\ [][TextEntryOpens =>
            (pc = "loop" /\ posts = 0 /\ outcome = "" /\ entryLog = <<>>)]_vars

C13_Witness ==
    /\ Returned
    /\ posts = 1
    /\ outcome = "ok"
    /\ Len(conversation) >= 4

\* C14: in a paint pass every line of the conversation is drawn at y >= 14,
\* and once the cursor is below 14 nothing more is drawn, of the turn at hand
\* or of an older one.
C14_LinesDrawnBelowHeader ==
    /\ [](\A i \in DOMAIN paint.drawn : paint.drawn[i].y >= 14)
    /\ [][(paint.pc # "start" /\ paint.y < 14) => paint'.drawn = paint.drawn]_vars

C14_Witness ==
    /\ paint.pc = "done"
    /\ paint.H = 135
    /\ paint.y < 14
    /\ Len(paint.drawn) = 11
    /\ Last(paint.drawn).y >= 14
    /\ paint.e = 2

\* C15: every line wrap_text returns is at most width wide, or is a single
\* character that is itself wider than width.
C15_LinesFitOrSingleChar ==
    wrap.pc = "done" =>
        \A i \in DOMAIN wrap.lines :
            \/ get_total_width(wrap.lines[i]) <= wrap.width
            \/ Len(wrap.lines[i]) = 1

C15_Witness ==
    /\ wrap.pc = "done"
    /\ \E i \in DOMAIN wrap.lines :
          get_total_width(wrap.lines[i]) > wrap.width
    /\ \E i \in DOMAIN wrap.lines :
          get_total_width(wrap.lines[i]) = wrap.width
    /\ Len(wrap.lines) >= 3

\* The words of a string: the non-empty pieces between its spaces.
NonEmpty(piece) == piece # <<>>
Words(str) == SelectSeq(Split(str), NonEmpty)

\* The lines joined with single spaces.
RECURSIVE Join(_)
Join(lines) ==
    IF lines = <<>> THEN <<>>
    ELSE IF Len(lines) = 1 THEN Head(lines)
    ELSE Head(lines) \o <<" ">> \o Join(Tail(lines))

\* A word cut into consecutive chunks, each the longest prefix of what is
\* left that fits the width (one character if none fits).
RECURSIVE Chunks(_, _)
Chunks(word, width) ==
    IF word = <<>> THEN <<>>
    ELSE LET fits == {k \in 1..Len(word) :
                        get_total_width(SubSeq(word, 1, k)) <= width}
             n == IF fits = {} THEN 1
                  ELSE CHOOSE k \in fits : \A j \in fits : j <= k
         IN  <<SubSeq(word, 1, n)>> \o Chunks(SubSeq(word, n + 1, Len(word)), width)

\* The words in order, each word wider than the width replaced by its chunks.
RECURSIVE WordsOrChunks(_, _)
WordsOrChunks(words, width) ==
    IF words = <<>> THEN <<>>
    ELSE (IF get_total_width(Head(words)) > width
          THEN Chunks(Head(words), width) ELSE <<Head(words)>>)
         \o WordsOrChunks(Tail(words), width)

\* C16: the lines wrap_text returns, joined with single spaces, hold the
\* words of the text in order, none dropped and none repeated, a word wider
\* than the width appearing as its consecutive chunks.
C16_JoinedLinesKeepWords ==
    wrap.pc = "done" =>
        Words(Join(wrap.lines)) = WordsOrChunks(Words(wrap.text), wrap.width)

\* C17: without an API key main() shows its error, closes it and ends: the
\* text entry is never opened, no turn is appended and no transport call is
\* made.  With a key main() enters the prompt loop whether or not
\* connect_wifi() succeeds.
C17_OnlyMissingKeyIsFatal ==
    /\ [](~cfg.gemini_api_key =>
            /\ pc \in {"start", "exited"}
            /\ conversation = <<>>
            /\ posts = 0
            /\ current_prompt = NotAsked
            /\ pc = "exited" =>
                  /\ shown = <<FixedMsg("Set gemini_api_key in config!")>>
                  /\ overlay = NoOverlay)
    /\ [][(pc = "start" /\ cfg.gemini_api_key) =>
            (pc' = "loop" /\ should_prompt_next')]_vars

C17_Witness ==
    /\ cfg.gemini_api_key
    /\ pc = "keys"
    /\ current_prompt = ""
    /\ shown = <<>>
    /\ ~cfg.wifi

\* C18: the User turn stored for a submitted text is among the turns draw_ui
\* iterates over and is the last element, after the persona turn, of the
\* contents of the request sent for it; draw_ui and the payload assembly
\* leave out no stored turn.
C18_SubmittedTurnSentAndShown ==
    /\ Len(display_conversation(conversation)) = Len(conversation)
    /\ pc = "api_entry" =>
          /\ display_conversation(conversation) # <<>>
          /\ Last(display_conversation(conversation)) = UserTurn(current_prompt)
    /\ Dispatched =>
          /\ Len(actual_conversation_for_history(entryLog)) = Len(entryLog)
          /\ Len(payload_contents) > 1
          /\ Last(payload_contents) = UserTurn(current_prompt)

\* main() is in its loop, outside call_gemini_api.
InLoop == pc \in {"loop", "keys"}

\* C19: a cancelled text entry appends no turn and starts no call, and
\* should_prompt_next, without which the text entry is not opened, then rises
\* only in a key poll that holds ENT; after an empty submission or a call the
\* flag is set and the next pass opens the text entry; main() leaves its loop
\* exactly when a key poll holds ESC; no key is polled and the loop is not
\* left while a call is under way.
C19_PromptLoop ==
    /\ [][(TextEntryOpens /\ current_prompt' = None) =>
            /\ conversation' = conversation
            /\ pc' = "keys"
            /\ ~should_prompt_next'
            /\ posts' = 0]_vars
    /\ [][TextEntryOpens => should_prompt_next]_vars
    /\ [][(InLoop /\ ~should_prompt_next /\ should_prompt_next') =>
            polled'.ENT]_vars
    /\ []((pc = "keys" /\ current_prompt \notin {None, NotAsked}) =>
            should_prompt_next)
    /\ [][(pc = "keys" /\ should_prompt_next /\ pc' = "loop") =>
            should_prompt_next']_vars
    /\ [][(pc = "loop" /\ should_prompt_next) => TextEntryOpens]_vars
    /\ [](cfg.gemini_api_key => (pc = "exited" <=> polled.ESC))
    /\ [][(InCall \/ Returned) =>
            (polled' = polled /\ pc' \notin {"exited", "loop"})]_vars

C19_Witness ==
    /\ pc = "keys"
    /\ current_prompt = None
    /\ ~should_prompt_next
    /\ Len(conversation) >= 2
    /\ posts = 0

\* C20: connect_wifi returns; it goes round its polling loop at most 20
\* times; with credentials what it returns is what nic.isconnected()
\* answered last; without ssid or password it returns False and nic.connect
\* was not called.
C20_ConnectWifiTerminates ==
    /\ <>(nic.pc = "done")
    /\ [](nic.retries <= 20)
    /\ []((nic.pc = "done" /\ nic.ssid /\ nic.password) =>
            (nic.result <=> nic.connected))
    /\ []((~nic.ssid \/ ~nic.password) =>
            /\ nic.connects = 0
            /\ nic.reads = 0
            /\ nic.pc = "done" => ~nic.result)

C20_Witness ==
    /\ nic.pc = "done"
    /\ nic.retries = 20
    /\ nic.connects = 1
    /\ nic.result

====
